---- MODULE Spec2Model ----
(***************************************************************************)
(* A model of the differential test harness of src/compiler_tester.py:     *)
(* CompilerTester.build, the corpus listing (list_valid_tests), the two     *)
(* backend adapters and the run loop validate_potato_cpu, together with    *)
(* the external collaborators it talks to (cargo, ls, the compiler binary, *)
(* PyPotatoCPUTester, tqdm), which are nondeterministic.                    *)
(*                                                                         *)
(* Strings that the code inspects (file names, the stdout of ls) are       *)
(* sequences of one-character strings.                                     *)
(***************************************************************************)
EXTENDS Integers, Sequences, FiniteSets, TLC

(***************************************************************************)
(* Bounds of the model.                                                    *)
(***************************************************************************)
\* longest chapters_to_test list a run is started with
MaxChapters == 2
\* most entries of one corpus directory at the start of a run
MaxDirSize == 2
\* most modifications of the corpus on disk while a run is in progress
MaxChanges == 1
\* most calls of build on the tester of the Builder scenario
MaxBuildCalls == 4
\* most entries of the directory handed to the listing scenario
MaxListSize == 4
MaxRuns == 2

(***************************************************************************)
(* Program constants.                                                      *)
(***************************************************************************)
COMPILER_TESTS_DIR == "writing-a-c-compiler-tests"
Prefix == {"invalid_lex", "invalid_parse", "valid"}
Prefix_valid == "valid"
DEFAULT_CHAPTERS_TO_TEST == <<1>>
\* the suffix f.endswith tests for
DotC == <<".", "c">>

(***************************************************************************)
(* The environment: chapter numbers, file names, termination codes.        *)
(***************************************************************************)
ChapterIds == {1, 2}
a_c == <<"a", ".", "c">>
b_c == <<"b", ".", "c">>
README == <<"R", "E", "A", "D", "M", "E">>
d_c == <<"d", ".", "c">>
h_c == <<".", "h", ".", "c">>
\* a directory entry: its name and whether it is a regular file or a directory
File(n) == [name |-> n, kind |-> "file"]
Dir(n) == [name |-> n, kind |-> "dir"]
RunEntries == {File(a_c), File(b_c), File(README)}
ListEntries == {File(a_c), File(b_c), File(README), Dir(d_c), File(h_c)}
\* a directory on disk: whether it exists, and its entries
Folder(entries) == [exists |-> TRUE, entries |-> entries]
Missing == [exists |-> FALSE, entries |-> {}]
\* termination codes of the external programs
Codes == {0, 2}
BuildCodes == {0, 1}

(***************************************************************************)
(* Sequence helpers.                                                       *)
(***************************************************************************)
Range(s) == {s[i] : i \in 1..Len(s)}
Min(S) == CHOOSE x \in S : \A y \in S : x <= y
Max(S) == CHOOSE x \in S : \A y \in S : y <= x
\* the sequences over S without repetition that enumerate all of S
Orders(S) == {o \in [1..Cardinality(S) -> S] : \A i, j \in 1..Cardinality(S) : o[i] = o[j] => i = j}
SeqsUpTo(S, n) == UNION {[1..k -> S] : k \in 0..n}
RECURSIVE Flatten(_)
Flatten(ss) == IF ss = <<>> THEN <<>> ELSE Head(ss) \o Flatten(Tail(ss))

(***************************************************************************)
(* str.strip, str.split and str.endswith, as Python computes them.         *)
(***************************************************************************)
Whitespace == {" ", "\n", "\t", "\r"}
\* s.strip(): s without its leading and trailing whitespace
strip(s) ==
    LET stripped[v \in Seq(STRING)] ==
            LET keep == {i \in 1..Len(v) : v[i] \notin Whitespace}
            IN  IF keep = {} THEN <<>> ELSE SubSeq(v, Min(keep), Max(keep))
    IN  stripped[s]
\* s.split(sep): the pieces between the separators; ''.split(sep) is ['']
split(s, sep) ==
    LET pieces[rest \in Seq(STRING)] ==
            LET at == {i \in 1..Len(rest) : rest[i] = sep}
            IN  IF at = {} THEN <<rest>>
                ELSE <<SubSeq(rest, 1, Min(at) - 1)>>
                         \o pieces[SubSeq(rest, Min(at) + 1, Len(rest))]
    IN  pieces[s]
\* f.endswith(suffix)
endswith(f, suffix) ==
    /\ Len(f) >= Len(suffix)
    /\ SubSeq(f, Len(f) - Len(suffix) + 1, Len(f)) = suffix

(***************************************************************************)
(* The ls command: it prints the names of the entries of a directory that  *)
(* do not start with a dot, one per line, and exits 0; on a directory that *)
(* does not exist it prints nothing to stdout and exits 2.                 *)
(***************************************************************************)
Visible(dir) == {e.name : e \in {x \in dir.entries : Head(x.name) # "."}}
\* the orders in which ls may enumerate the directory
LsOrders(dir) == IF ~dir.exists THEN {<<>>} ELSE Orders(Visible(dir))
RECURSIVE Lines(_)
Lines(names) ==
    IF names = <<>> THEN <<>> ELSE Head(names) \o <<"\n">> \o Lines(Tail(names))
ls(dir, order) ==
    IF ~dir.exists
    THEN [returncode |-> 2, stdout |-> <<>>]
    ELSE [returncode |-> 0, stdout |-> Lines(order)]

(***************************************************************************)
(* CompilerTester.get_test_dir and get_test_path: the path is kept as its  *)
(* components.                                                             *)
(***************************************************************************)
get_test_dir(chapter_no, prefix) ==
    <<COMPILER_TESTS_DIR, "tests", chapter_no, prefix>>
get_test_path(test_name, chapter_no, prefix) ==
    Append(get_test_dir(chapter_no, prefix), test_name)

(***************************************************************************)
(* CompilerTester.list_valid_tests on the directory `dir` that test_dir    *)
(* names, ls enumerating it in `order`: the list returned, or the error    *)
(* raised.                                                                 *)
(***************************************************************************)
IsDotC(f) == endswith(f, DotC)
list_valid_tests(dir, order) ==
    LET ls_result == ls(dir, order)
        test_files == split(strip(ls_result.stdout), "\n")
        c_test_files == SelectSeq(test_files, IsDotC)
    IN  IF ls_result.returncode # 0
        THEN [raised |-> TRUE, value |-> <<>>]
        ELSE [raised |-> FALSE, value |-> c_test_files]

(***************************************************************************)
(* CompilerTester.build on a tester whose flag is `built`, the external    *)
(* build command exiting with `returncode` if it is invoked: the new flag, *)
(* whether the command was invoked, and what the call returned or raised.  *)
(***************************************************************************)
\* build that sets the flag before it looks at the return code
build_eager(built_, force_rebuild, returncode) ==
    IF built_ /\ ~force_rebuild
    THEN [built |-> built_, invoked |-> FALSE, raised |-> FALSE, value |-> 0]
    ELSE IF returncode # 0
    THEN [built |-> TRUE, invoked |-> TRUE, raised |-> TRUE, value |-> returncode]
    ELSE [built |-> TRUE, invoked |-> TRUE, raised |-> FALSE, value |-> returncode]
\* build that clears the flag when the build command fails
build_reset(built_, force_rebuild, returncode) ==
    IF built_ /\ ~force_rebuild
    THEN [built |-> built_, invoked |-> FALSE, raised |-> FALSE, value |-> 0]
    ELSE IF returncode # 0
    THEN [built |-> FALSE, invoked |-> TRUE, raised |-> TRUE, value |-> returncode]
    ELSE [built |-> TRUE, invoked |-> TRUE, raised |-> FALSE, value |-> returncode]
\* build that never sets the flag
build_forgetful(built_, force_rebuild, returncode) ==
    IF built_ /\ ~force_rebuild
    THEN [built |-> built_, invoked |-> FALSE, raised |-> FALSE, value |-> 0]
    ELSE IF returncode # 0
    THEN [built |-> built_, invoked |-> TRUE, raised |-> TRUE, value |-> returncode]
    ELSE [built |-> built_, invoked |-> TRUE, raised |-> FALSE, value |-> returncode]
\* build with the check of the return code left out
build_unchecked(built_, force_rebuild, returncode) ==
    IF built_ /\ ~force_rebuild
    THEN [built |-> built_, invoked |-> FALSE, raised |-> FALSE, value |-> 0]
    ELSE [built |-> TRUE, invoked |-> TRUE, raised |-> FALSE, value |-> returncode]
build(built_, force_rebuild, returncode) ==
    IF built_ /\ ~force_rebuild
    THEN [built |-> built_, invoked |-> FALSE, raised |-> FALSE, value |-> 0]
    ELSE IF returncode # 0
    THEN [built |-> built_, invoked |-> TRUE, raised |-> TRUE, value |-> returncode]
    ELSE [built |-> TRUE, invoked |-> TRUE, raised |-> FALSE, value |-> returncode]

(***************************************************************************)
(* The state.                                                              *)
(***************************************************************************)
VARIABLES
    chapters_to_test,        \* argument of validate_potato_cpu
    build_before_test,       \* argument of validate_potato_cpu
    corpus,                  \* the disk: chapter -> its valid directory, or Missing
    changes,                 \* how often the disk was modified since the run began
    pc,                      \* where the run is
    built,                   \* tester.built
    build_log,               \* the calls of tester.build so far, one record each
    total_tests,             \* count_total_tests: the running sum
    count_i,                 \* count_total_tests: index of the chapter counted next
    pbar,                    \* the tqdm progress bar
    chapter_i,               \* validate_potato_cpu: index of the current chapter
    valid_tests,             \* validate_potato_cpu: the current chapter's listing
    test_i,                  \* validate_potato_cpu: index of the current test
    x86_return_code,         \* local of validate_potato_cpu
    potato_cpu_return_code,  \* local of validate_potato_cpu
    error,                   \* the exception that left the call, if any
    x86_calls,               \* test paths handed to the native adapter, in order
    potato_calls,            \* test paths handed to the simulated adapter, in order
    list_log,                \* the listings the run loop obtained, in order
    ls_order,                \* listing scenario: the order ls enumerated in
    in_flight,               \* the adapter invocations that have begun and not ended
    ext,                     \* what the external collaborators last handed back
    caller_built,            \* built of the tester the caller created
    runs,                    \* how many calls of validate_potato_cpu have begun
    cli,                     \* the parsed command line, when run as a script
    exit_code,               \* the exit status of the process, once it has ended
    earlier_builds           \* the build calls of each earlier run of the process

vars == <<chapters_to_test, build_before_test, corpus, changes, pc, built,
          build_log, total_tests, count_i, pbar, chapter_i, valid_tests, test_i,
          x86_return_code, potato_cpu_return_code, error, x86_calls,
          potato_calls, list_log, ls_order, in_flight, ext, caller_built,
          runs, cli, exit_code, earlier_builds>>

args == <<chapters_to_test, build_before_test>>
builder == <<built, build_log>>
counting == <<total_tests, count_i>>
looping == <<chapter_i, valid_tests, test_i>>
codes == <<x86_return_code, potato_cpu_return_code>>
calls == <<x86_calls, potato_calls>>
disk == <<corpus, changes>>
probes == <<in_flight, ext>>
outer == <<caller_built, runs, cli, exit_code, earlier_builds>>

None == "None"
\* a local that is not bound yet, a code that no one has handed back: a value
\* that is no exit status
Unset == -1
NoError == [type |-> None, where |-> None, message |-> <<>>]
NoPbar == [created |-> FALSE, total |-> 0, n |-> 0, desc |-> <<>>]
\* nothing handed back yet: no finished process, no compiled program, no result
NoRunResult == [args |-> <<>>, returncode |-> Unset]
NoProgram == [source |-> <<>>]
NoExt == [run_result |-> NoRunResult, potato_program |-> NoProgram, result |-> Unset]
\* not run as a script
NoCli == [chapters |-> <<>>, no_build |-> FALSE, script |-> FALSE]
\* the parts of an f-string: literal text, and the variables it interpolates
Lit(text) == [var |-> "", val |-> text]
Fmt(var, val) == [var |-> var, val |-> val]
\* raise type(message) from the function `where`
Raise(type, where, message) ==
    /\ error' = [type |-> type, where |-> where, message |-> message]
    /\ pc' = "failed"

\* the directory on disk that a test_dir path names
Disk(test_dir) ==
    IF /\ test_dir[1] = COMPILER_TESTS_DIR
       /\ test_dir[2] = "tests"
       /\ test_dir[3] \in ChapterIds
       /\ test_dir[4] = Prefix_valid
    THEN corpus[test_dir[3]]
    ELSE Missing

\* the directories a run may find for a requested chapter
RunDirs ==
    {Missing} \cup {Folder(d) : d \in {x \in SUBSET RunEntries : Cardinality(x) <= MaxDirSize}}

(***************************************************************************)
(* State before validate_potato_cpu(chapters_to_test, build_before_test)   *)
(* is entered.  Only the directories of requested chapters are on disk.    *)
(***************************************************************************)
Locals ==
    /\ changes = 0
    /\ built = FALSE
    /\ build_log = <<>>
    /\ total_tests = 0
    /\ count_i = 1
    /\ pbar = NoPbar
    /\ chapter_i = 1
    /\ valid_tests = <<>>
    /\ test_i = 1
    /\ x86_return_code = Unset
    /\ potato_cpu_return_code = Unset
    /\ error = NoError
    /\ x86_calls = <<>>
    /\ potato_calls = <<>>
    /\ list_log = <<>>
    /\ ls_order = <<>>
    /\ in_flight = {}
    /\ ext = NoExt

\* one call, made directly: no script around it, no earlier call
Standalone ==
    /\ caller_built = FALSE
    /\ runs = 1
    /\ cli = NoCli
    /\ exit_code = Unset
    /\ earlier_builds = <<>>

Init ==
    /\ chapters_to_test \in SeqsUpTo(ChapterIds, MaxChapters)
    /\ build_before_test \in BOOLEAN
    /\ corpus \in [ChapterIds -> RunDirs]
    /\ \A ch \in ChapterIds \ Range(chapters_to_test) : corpus[ch] = Missing
    /\ pc = "start"
    /\ Locals
    /\ Standalone

(***************************************************************************)
(* validate_potato_cpu, one action per statement that calls out.           *)
(***************************************************************************)
\* line 106 replaced by the use of the tester the method is called on
Construct_self ==
    /\ pc = "start"
    /\ built' = caller_built
    /\ pc' = "count"
    /\ UNCHANGED <<args, outer, probes, disk, build_log, counting, pbar, looping, codes, error,
                   calls, list_log, ls_order>>

\* line 106: tester = CompilerTester(), whose __init__ sets built = False
Construct ==
    /\ pc = "start"
    /\ built' = FALSE
    /\ pc' = "count"
    /\ UNCHANGED <<args, outer, probes, disk, build_log, counting, pbar, looping, codes, error,
                   calls, list_log, ls_order>>

\* lines 74-76 with the sum overwritten instead of accumulated
CountChapter_overwrite ==
    /\ pc = "count"
    /\ count_i <= Len(chapters_to_test)
    /\ LET chapter_no == chapters_to_test[count_i]
           dir == Disk(get_test_dir(chapter_no, Prefix_valid))
       IN  \E listed \in {list_valid_tests(dir, order) : order \in LsOrders(dir)} :
               IF listed.raised
               THEN /\ Raise("RuntimeError", "list_valid_tests",
                             <<Lit("Failed to list tests.")>>)
                    /\ UNCHANGED counting
               ELSE /\ total_tests' = Len(listed.value)
                    /\ count_i' = count_i + 1
                    /\ UNCHANGED <<pc, error>>
    /\ UNCHANGED <<args, outer, probes, disk, builder, pbar, looping, codes, calls, list_log,
                   ls_order>>

\* lines 74-76 with a failed listing counted as no tests
CountChapter_tolerant ==
    /\ pc = "count"
    /\ count_i <= Len(chapters_to_test)
    /\ LET chapter_no == chapters_to_test[count_i]
           dir == Disk(get_test_dir(chapter_no, Prefix_valid))
       IN  \E listed \in {list_valid_tests(dir, order) : order \in LsOrders(dir)} :
               /\ total_tests' = total_tests + Len(listed.value)
               /\ count_i' = count_i + 1
    /\ UNCHANGED <<args, outer, probes, disk, pc, error, builder, pbar, looping, codes, calls,
                   list_log, ls_order>>

\* lines 74-76: one iteration of count_total_tests; the listing may raise
CountChapter ==
    /\ pc = "count"
    /\ count_i <= Len(chapters_to_test)
    /\ LET chapter_no == chapters_to_test[count_i]
           dir == Disk(get_test_dir(chapter_no, Prefix_valid))
       IN  \E listed \in {list_valid_tests(dir, order) : order \in LsOrders(dir)} :
               IF listed.raised
               THEN /\ Raise("RuntimeError", "list_valid_tests",
                             <<Lit("Failed to list tests.")>>)
                    /\ UNCHANGED counting
               ELSE /\ total_tests' = total_tests + Len(listed.value)
                    /\ count_i' = count_i + 1
                    /\ UNCHANGED <<pc, error>>
    /\ UNCHANGED <<args, outer, probes, disk, builder, pbar, looping, codes, calls, list_log,
                   ls_order>>

\* lines 78 and 108: count_total_tests returns, pbar = tqdm(total=total_tests)
CreatePbar ==
    /\ pc = "count"
    /\ count_i > Len(chapters_to_test)
    /\ pbar' = [created |-> TRUE, total |-> total_tests, n |-> 0, desc |-> <<>>]
    /\ pc' = "build"
    /\ UNCHANGED <<args, outer, probes, disk, builder, counting, looping, codes, error, calls,
                   list_log, ls_order>>

\* lines 110-111 with the exception of build swallowed
BuildBeforeTest_swallow ==
    /\ pc = "build"
    /\ build_before_test
    /\ \E returncode \in BuildCodes :
           LET r == build(built, FALSE, returncode)
           IN  /\ built' = r.built
               /\ build_log' = Append(build_log,
                      [force_rebuild |-> FALSE, built_before |-> built,
                       invoked |-> r.invoked, raised |-> r.raised,
                       value |-> r.value])
    /\ pc' = "chapter"
    /\ UNCHANGED <<args, outer, probes, disk, counting, pbar, looping, codes, error, calls,
                   list_log, ls_order>>

\* lines 110-111: tester.build(force_rebuild=False)
BuildBeforeTest ==
    /\ pc = "build"
    /\ build_before_test
    /\ \E returncode \in BuildCodes :
           LET r == build(built, FALSE, returncode)
           IN  /\ built' = r.built
               /\ build_log' = Append(build_log,
                      [force_rebuild |-> FALSE, built_before |-> built,
                       invoked |-> r.invoked, raised |-> r.raised,
                       value |-> r.value])
               /\ IF r.raised
                  THEN Raise("RuntimeError", "build",
                             <<Lit("Failed to build the compiler.")>>)
                  ELSE /\ pc' = "chapter"
                       /\ UNCHANGED error
    /\ UNCHANGED <<args, outer, probes, disk, counting, pbar, looping, codes, calls, list_log,
                   ls_order>>

\* lines 112-113 taken whatever build_before_test is
SkipBuild_always ==
    /\ pc = "build"
    /\ pc' = "chapter"
    /\ UNCHANGED <<args, outer, probes, disk, builder, counting, pbar, looping, codes, error,
                   calls, list_log, ls_order>>

\* lines 112-113: the build is skipped
SkipBuild ==
    /\ pc = "build"
    /\ ~build_before_test
    /\ pc' = "chapter"
    /\ UNCHANGED <<args, outer, probes, disk, builder, counting, pbar, looping, codes, error,
                   calls, list_log, ls_order>>

\* lines 115-117: the next chapter is listed; the listing may raise
ListChapter ==
    /\ pc = "chapter"
    /\ chapter_i <= Len(chapters_to_test)
    /\ LET chapter == chapters_to_test[chapter_i]
           dir == Disk(get_test_dir(chapter, Prefix_valid))
       IN  \E listed \in {list_valid_tests(dir, order) : order \in LsOrders(dir)} :
               IF listed.raised
               THEN /\ Raise("RuntimeError", "list_valid_tests",
                             <<Lit("Failed to list tests.")>>)
                    /\ UNCHANGED <<looping, list_log>>
               ELSE /\ valid_tests' = listed.value
                    /\ test_i' = 1
                    /\ list_log' = Append(list_log,
                           [chapter |-> chapter, tests |-> listed.value])
                    /\ pc' = "test"
                    /\ UNCHANGED <<chapter_i, error>>
    /\ UNCHANGED <<args, outer, probes, disk, builder, counting, pbar, codes, calls, ls_order>>

\* line 115: the chapters are exhausted, the call returns None
Return ==
    /\ pc = "chapter"
    /\ chapter_i > Len(chapters_to_test)
    /\ pc' = "done"
    /\ UNCHANGED <<args, outer, probes, disk, builder, counting, pbar, looping, codes, error,
                   calls, list_log, ls_order>>

\* line 118: the tests of the chapter are exhausted
ChapterDone ==
    /\ pc = "test"
    /\ test_i > Len(valid_tests)
    /\ chapter_i' = chapter_i + 1
    /\ pc' = "chapter"
    /\ UNCHANGED <<args, outer, probes, disk, builder, counting, pbar, valid_tests, test_i,
                   codes, error, calls, list_log, ls_order>>

\* lines 118-121: pbar.set_description for the next test
SetDescription ==
    /\ pc = "test"
    /\ test_i <= Len(valid_tests)
    /\ pbar' = [pbar EXCEPT !.desc =
                   <<Lit("  Executing test ["),
                     Fmt("chapter", chapters_to_test[chapter_i]),
                     Lit("]: "),
                     Fmt("test_file", valid_tests[test_i]),
                     Lit(" ... ")>>]
    /\ pc' = "x86"
    /\ UNCHANGED <<args, outer, probes, disk, builder, counting, looping, codes, error, calls,
                   list_log, ls_order>>

\* the path of the test the loop is at
CurrentTestPath ==
    get_test_path(valid_tests[test_i], chapters_to_test[chapter_i], Prefix_valid)
\* line 61 returning whether the process failed instead of its code
x86_returned_bool(run_result) == IF run_result.returncode = 0 THEN 0 ELSE 1
\* line 61: what execute_test_x86 returns for the finished process
x86_returned(run_result) == run_result.returncode
\* lines 69-70: what execute_test_potato_cpu returns for the result of execute
potato_returned(result) == result

\* lines 54-60 launching the compiler and going on without waiting for it
LaunchX86_nowait ==
    /\ pc = "x86"
    /\ x86_calls' = Append(x86_calls, CurrentTestPath)
    /\ in_flight' = in_flight \cup {"x86"}
    /\ ext' = [ext EXCEPT !.run_result =
                  [args |-> <<"./target/release/ca-compiler", CurrentTestPath>>,
                   returncode |-> 0]]
    /\ x86_return_code' = 0
    /\ pc' = "potato"
    /\ UNCHANGED <<args, outer, disk, builder, counting, pbar, looping,
                   potato_cpu_return_code, error, potato_calls, list_log, ls_order>>

\* line 122 with one more attempt after the first launch failure of a test
LaunchX86_retry ==
    /\ pc = "x86"
    /\ x86_calls' = Append(x86_calls, CurrentTestPath)
    /\ \/ /\ in_flight' = in_flight \cup {"x86"}
          /\ pc' = "x86_wait"
          /\ UNCHANGED error
       \/ /\ IF Len(x86_calls) = pbar.n
             THEN UNCHANGED <<pc, error>>
             ELSE Raise("OSError", "execute_test_x86", <<Lit("launch")>>)
          /\ UNCHANGED in_flight
    /\ UNCHANGED <<args, outer, disk, builder, counting, pbar, looping, codes,
                   potato_calls, list_log, ls_order, ext>>

\* line 122 and lines 54-60: execute_test_x86 is entered and subprocess.run
\* starts the compiler on the test path, or cannot launch it and raises
LaunchX86 ==
    /\ pc = "x86"
    /\ x86_calls' = Append(x86_calls, CurrentTestPath)
    /\ \/ /\ in_flight' = in_flight \cup {"x86"}
          /\ pc' = "x86_wait"
          /\ UNCHANGED error
       \/ /\ Raise("OSError", "execute_test_x86", <<Lit("launch")>>)
          /\ UNCHANGED in_flight
    /\ UNCHANGED <<args, outer, disk, builder, counting, pbar, looping, codes,
                   potato_calls, list_log, ls_order, ext>>

\* lines 55-60 run with check=True: a non-zero return code raises
ExecuteX86_check ==
    /\ pc = "x86_wait"
    /\ \E returncode \in Codes :
           LET run_result ==
                   [args |-> <<"./target/release/ca-compiler", CurrentTestPath>>,
                    returncode |-> returncode]
           IN  /\ ext' = [ext EXCEPT !.run_result = run_result]
               /\ IF returncode # 0
                  THEN /\ Raise("CalledProcessError", "execute_test_x86",
                                <<Lit("non-zero exit status")>>)
                       /\ UNCHANGED x86_return_code
                  ELSE /\ x86_return_code' = x86_returned(run_result)
                       /\ pc' = "potato"
                       /\ UNCHANGED error
    /\ in_flight' = in_flight \ {"x86"}
    /\ UNCHANGED <<args, outer, disk, builder, counting, pbar, looping,
                   potato_cpu_return_code, calls, list_log, ls_order>>

\* lines 55-61 and 122: subprocess.run returns when the process has ended
\* with some code, execute_test_x86 returns
ExecuteX86 ==
    /\ pc = "x86_wait"
    /\ \E returncode \in Codes :
           LET run_result ==
                   [args |-> <<"./target/release/ca-compiler", CurrentTestPath>>,
                    returncode |-> returncode]
           IN  /\ ext' = [ext EXCEPT !.run_result = run_result]
               /\ x86_return_code' = x86_returned(run_result)
    /\ in_flight' = in_flight \ {"x86"}
    /\ pc' = "potato"
    /\ UNCHANGED <<args, outer, disk, builder, counting, pbar, looping,
                   potato_cpu_return_code, error, calls, list_log, ls_order>>

\* lines 123-125 and 66-68: execute_test_potato_cpu is entered and hands the
\* test path to PyPotatoCPUTester
LaunchPotato ==
    /\ pc = "potato"
    /\ potato_calls' = Append(potato_calls, CurrentTestPath)
    /\ in_flight' = in_flight \cup {"potato"}
    /\ pc' = "potato_wait"
    /\ UNCHANGED <<args, outer, disk, builder, counting, pbar, looping, codes,
                   error, x86_calls, list_log, ls_order, ext>>

\* lines 68-70: compile_from_source raises or returns the program compiled
\* from the path; execute raises or yields some code, which is returned
ExecutePotato ==
    /\ pc = "potato_wait"
    /\ in_flight' = in_flight \ {"potato"}
    /\ \/ /\ Raise("PotatoError", "compile_from_source", <<Lit("compile")>>)
          /\ UNCHANGED <<potato_cpu_return_code, ext>>
       \/ LET potato_program == [source |-> CurrentTestPath]
          IN  \/ /\ Raise("PotatoError", "execute", <<Lit("execute")>>)
                 /\ ext' = [ext EXCEPT !.potato_program = potato_program,
                                       !.result = Unset]
                 /\ UNCHANGED potato_cpu_return_code
              \/ \E result \in Codes :
                     /\ ext' = [ext EXCEPT !.potato_program = potato_program,
                                           !.result = result]
                     /\ potato_cpu_return_code' = potato_returned(result)
                     /\ pc' = "compare"
                     /\ UNCHANGED error
    /\ UNCHANGED <<args, outer, disk, builder, counting, pbar, looping,
                   x86_return_code, calls, list_log, ls_order>>

\* lines 126-130 collecting the divergence and going on to the next test
Diverge_continue ==
    /\ pc = "compare"
    /\ x86_return_code # potato_cpu_return_code
    /\ test_i' = test_i + 1
    /\ pc' = "test"
    /\ UNCHANGED <<args, outer, probes, disk, builder, counting, pbar, chapter_i, valid_tests,
                   codes, error, calls, list_log, ls_order>>

\* lines 126-130: the results differ
Diverge ==
    /\ pc = "compare"
    /\ x86_return_code # potato_cpu_return_code
    /\ Raise("ValueError", "validate_potato_cpu",
             <<Lit("FAILED (x86: "), Fmt("x86_return_code", x86_return_code),
               Lit(", Potato CPU: "),
               Fmt("potato_cpu_return_code", potato_cpu_return_code), Lit(")")>>)
    /\ UNCHANGED <<args, outer, probes, disk, builder, counting, pbar, looping, codes, calls,
                   list_log, ls_order>>

\* lines 126 and 132 stepping over the test that follows
Update_skip ==
    /\ pc = "compare"
    /\ x86_return_code = potato_cpu_return_code
    /\ pbar' = [pbar EXCEPT !.n = pbar.n + 1]
    /\ test_i' = test_i + 2
    /\ pc' = "test"
    /\ UNCHANGED <<args, outer, probes, disk, builder, counting, chapter_i, valid_tests, codes,
                   error, calls, list_log, ls_order>>

\* lines 126 and 132 advancing the bar by two
Update_double ==
    /\ pc = "compare"
    /\ x86_return_code = potato_cpu_return_code
    /\ pbar' = [pbar EXCEPT !.n = pbar.n + 2]
    /\ test_i' = test_i + 1
    /\ pc' = "test"
    /\ UNCHANGED <<args, outer, probes, disk, builder, counting, chapter_i, valid_tests, codes,
                   error, calls, list_log, ls_order>>

\* lines 126 and 132: the results agree, pbar.update(1), next test
Update ==
    /\ pc = "compare"
    /\ x86_return_code = potato_cpu_return_code
    /\ pbar' = [pbar EXCEPT !.n = pbar.n + 1]
    /\ test_i' = test_i + 1
    /\ pc' = "test"
    /\ UNCHANGED <<args, outer, probes, disk, builder, counting, chapter_i, valid_tests, codes,
                   error, calls, list_log, ls_order>>

(***************************************************************************)
(* The environment modifies the corpus while the run is in progress: a     *)
(* directory of a requested chapter is removed or created, or an entry is  *)
(* created or deleted in it.  The run reads the disk only when it lists a  *)
(* directory, so a modification is placed right before a listing.          *)
(***************************************************************************)
AboutToList ==
    \/ pc = "count" /\ count_i <= Len(chapters_to_test)
    \/ pc = "chapter" /\ chapter_i <= Len(chapters_to_test)

CorpusChange ==
    /\ AboutToList
    /\ changes < MaxChanges
    /\ \E ch \in Range(chapters_to_test) :
           \/ /\ corpus[ch].exists
              /\ corpus' = [corpus EXCEPT ![ch] = Missing]
           \/ /\ ~corpus[ch].exists
              /\ corpus' = [corpus EXCEPT ![ch] = Folder({})]
           \/ /\ corpus[ch].exists
              /\ \E e \in RunEntries \ corpus[ch].entries :
                     corpus' = [corpus EXCEPT ![ch] = Folder(corpus[ch].entries \cup {e})]
           \/ /\ corpus[ch].exists
              /\ \E e \in corpus[ch].entries :
                     corpus' = [corpus EXCEPT ![ch] = Folder(corpus[ch].entries \ {e})]
    /\ changes' = changes + 1
    /\ UNCHANGED <<args, outer, probes, pc, builder, counting, pbar, looping, codes, error,
                   calls, list_log, ls_order>>

Next ==
    \/ Construct
    \/ CountChapter
    \/ CreatePbar
    \/ BuildBeforeTest
    \/ SkipBuild
    \/ ListChapter
    \/ Return
    \/ ChapterDone
    \/ SetDescription
    \/ LaunchX86
    \/ ExecuteX86
    \/ LaunchPotato
    \/ ExecutePotato
    \/ Diverge
    \/ Update
    \/ CorpusChange

Spec == Init /\ [][Next]_vars

(***************************************************************************)
(* One run in which every external call terminates: the interpreter takes  *)
(* the next step of validate_potato_cpu whenever there is one.  Nothing is *)
(* required of the environment that modifies the disk.                     *)
(***************************************************************************)
\* where the run is: every step of the run changes it, a change of the disk
\* does not
position == <<pc, count_i>>

SpecLive == Init /\ [][Next]_vars /\ WF_position(Next)

(***************************************************************************)
(* A failing progress reporter: tqdm(...), set_description or update       *)
(* raises.  No call of them is guarded by a try, so the exception leaves   *)
(* validate_potato_cpu.                                                    *)
(***************************************************************************)
\* line 108 raises
CreatePbarFails ==
    /\ pc = "count"
    /\ count_i > Len(chapters_to_test)
    /\ Raise("TqdmError", "tqdm", <<Lit("tqdm")>>)
    /\ UNCHANGED <<args, outer, probes, disk, builder, counting, pbar, looping, codes, calls,
                   list_log, ls_order>>

\* line 119 raises
SetDescriptionFails ==
    /\ pc = "test"
    /\ test_i <= Len(valid_tests)
    /\ Raise("TqdmError", "tqdm", <<Lit("set_description")>>)
    /\ UNCHANGED <<args, outer, probes, disk, builder, counting, pbar, looping, codes, calls,
                   list_log, ls_order>>

\* line 132 raises
UpdateFails ==
    /\ pc = "compare"
    /\ x86_return_code = potato_cpu_return_code
    /\ Raise("TqdmError", "tqdm", <<Lit("update")>>)
    /\ UNCHANGED <<args, outer, probes, disk, builder, counting, pbar, looping, codes, calls,
                   list_log, ls_order>>

NextReporter ==
    \/ Next
    \/ CreatePbarFails
    \/ SetDescriptionFails
    \/ UpdateFails

SpecReporter == Init /\ [][NextReporter]_vars

(***************************************************************************)
(* The Builder scenario: one CompilerTester, on which build is called      *)
(* again and again with any force_rebuild; an exception of one call is     *)
(* caught by the caller.                                                   *)
(***************************************************************************)
Idle ==
    /\ chapters_to_test = <<>>
    /\ build_before_test = FALSE
    /\ corpus = [ch \in ChapterIds |-> Missing]
    /\ Locals
    /\ Standalone

InitBuilder ==
    /\ pc = "builder"
    /\ Idle

\* lines 22-37: tester.build(force_rebuild)
CallBuild ==
    /\ pc = "builder"
    /\ Len(build_log) < MaxBuildCalls
    /\ \E force_rebuild \in BOOLEAN, returncode \in BuildCodes :
           LET r == build(built, force_rebuild, returncode)
           IN  /\ built' = r.built
               /\ build_log' = Append(build_log,
                      [force_rebuild |-> force_rebuild, built_before |-> built,
                       invoked |-> r.invoked, raised |-> r.raised,
                       value |-> r.value])
    /\ UNCHANGED <<args, outer, probes, disk, pc, counting, pbar, looping, codes, error, calls,
                   list_log, ls_order>>

NextBuilder == CallBuild

SpecBuilder == InitBuilder /\ [][NextBuilder]_vars

(***************************************************************************)
(* The listing scenario: list_valid_tests is called once on a directory    *)
(* with any content, ls enumerating it in any order.                       *)
(***************************************************************************)
ListDirs ==
    {Missing} \cup {Folder(d) : d \in {x \in SUBSET ListEntries : Cardinality(x) <= MaxListSize}}

InitListing ==
    /\ pc = "listing"
    /\ chapters_to_test = <<>>
    /\ build_before_test = FALSE
    /\ \E d \in ListDirs : corpus = [ch \in ChapterIds |-> IF ch = 1 THEN d ELSE Missing]
    /\ Locals
    /\ Standalone

\* lines 80-93: CompilerTester.list_valid_tests(chapter_no)
CallList ==
    /\ pc = "listing"
    /\ \E chapter_no \in ChapterIds :
           LET dir == Disk(get_test_dir(chapter_no, Prefix_valid))
           IN  \E order \in LsOrders(dir) :
                   LET listed == list_valid_tests(dir, order)
                   IN  /\ ls_order' = order
                       /\ chapter_i' = chapter_no
                       /\ IF listed.raised
                          THEN /\ Raise("RuntimeError", "list_valid_tests",
                                        <<Lit("Failed to list tests.")>>)
                               /\ UNCHANGED valid_tests
                          ELSE /\ valid_tests' = listed.value
                               /\ pc' = "listed"
                               /\ UNCHANGED error
    /\ UNCHANGED <<args, outer, probes, disk, builder, counting, pbar, test_i, codes, calls,
                   list_log>>

NextListing == CallList

SpecListing == InitListing /\ [][NextListing]_vars

\* the run has ended: it returned, or an exception left it
Terminal == pc \in {"done", "failed"}

(***************************************************************************)
(* The script test_potato_cpu.py: the command line is parsed, a tester is  *)
(* created and validate_potato_cpu is called once on the parsed arguments. *)
(* The script catches nothing, so an exception of the call ends the        *)
(* process with the interpreter's exit status 1; otherwise the script      *)
(* runs off its end and the exit status is 0.                              *)
(***************************************************************************)
\* the command lines: -c absent or with one or more chapters, --no-build
\* absent or present
CommandLines ==
    [chapters : SeqsUpTo(ChapterIds, MaxChapters), no_build : BOOLEAN, script : {TRUE}]

\* lines 11-21: parse_args, with the default of -c
parse_args(argv) ==
    [chapters |-> IF argv.chapters = <<>>
                  THEN DEFAULT_CHAPTERS_TO_TEST
                  ELSE argv.chapters,
     no_build |-> argv.no_build]

InitCli ==
    /\ cli \in CommandLines
    /\ chapters_to_test = <<>>
    /\ build_before_test = FALSE
    /\ corpus \in [ChapterIds -> RunDirs]
    /\ \A ch \in ChapterIds \ Range(parse_args(cli).chapters) : corpus[ch] = Missing
    /\ pc = "main"
    /\ Locals
    /\ caller_built = FALSE
    /\ runs = 0
    /\ exit_code = Unset
    /\ earlier_builds = <<>>

\* lines 21-29 with the flag handed on as it is
Main_inverted ==
    /\ pc = "main"
    /\ LET parsed_args == parse_args(cli)
       IN  /\ build_before_test' = parsed_args.no_build
           /\ chapters_to_test' = parsed_args.chapters
    /\ caller_built' = FALSE
    /\ runs' = runs + 1
    /\ pc' = "start"
    /\ UNCHANGED <<cli, exit_code, earlier_builds, probes, disk, builder, counting, pbar,
                   looping, codes, error, calls, list_log, ls_order>>

\* lines 21-29: the arguments are parsed, a tester is created, and
\* validate_potato_cpu is called
Main ==
    /\ pc = "main"
    /\ LET parsed_args == parse_args(cli)
       IN  /\ build_before_test' = ~parsed_args.no_build
           /\ chapters_to_test' = parsed_args.chapters
    /\ caller_built' = FALSE
    /\ runs' = runs + 1
    /\ pc' = "start"
    /\ UNCHANGED <<cli, exit_code, earlier_builds, probes, disk, builder, counting, pbar,
                   looping, codes, error, calls, list_log, ls_order>>

\* line 29 returned: the script ends
Exit ==
    /\ cli.script
    /\ pc = "done"
    /\ exit_code' = 0
    /\ pc' = "exited"
    /\ UNCHANGED <<args, caller_built, runs, cli, earlier_builds, probes, disk, builder,
                   counting, pbar, looping, codes, error, calls, list_log, ls_order>>

\* line 26-29 raised: the interpreter prints the traceback and ends
ExitOnError ==
    /\ cli.script
    /\ pc = "failed"
    /\ exit_code' = 1
    /\ pc' = "exited"
    /\ UNCHANGED <<args, caller_built, runs, cli, earlier_builds, probes, disk, builder,
                   counting, pbar, looping, codes, error, calls, list_log, ls_order>>

NextCli ==
    \/ Main
    \/ Next
    \/ Exit
    \/ ExitOnError

SpecCli == InitCli /\ [][NextCli]_vars

(***************************************************************************)
(* Several runs in one process: a caller creates a tester, may call build  *)
(* on it, and calls validate_potato_cpu on the default chapter again and   *)
(* again, catching what a run raises.                                      *)
(***************************************************************************)
InitRuns ==
    /\ chapters_to_test = DEFAULT_CHAPTERS_TO_TEST
    /\ build_before_test \in BOOLEAN
    /\ corpus \in [ChapterIds -> RunDirs]
    /\ \A ch \in ChapterIds \ Range(chapters_to_test) : corpus[ch] = Missing
    /\ pc = "start"
    /\ Locals
    /\ Standalone

\* the caller calls build on the tester it created
CallerBuild ==
    /\ pc = "start"
    /\ \E force_rebuild \in BOOLEAN, returncode \in BuildCodes :
           caller_built' = build(caller_built, force_rebuild, returncode).built
    /\ UNCHANGED <<args, runs, cli, exit_code, earlier_builds, probes, disk, pc, builder,
                   counting, pbar, looping, codes, error, calls, list_log, ls_order>>

\* the run has ended; the caller calls validate_potato_cpu once more.  The
\* tester of the ended run is left as it is until line 106 replaces it.
NextRun ==
    /\ Terminal
    /\ runs < MaxRuns
    /\ runs' = runs + 1
    /\ earlier_builds' = Append(earlier_builds, build_log)
    /\ build_before_test' \in BOOLEAN
    /\ pc' = "start"
    /\ build_log' = <<>>
    /\ total_tests' = 0
    /\ count_i' = 1
    /\ pbar' = NoPbar
    /\ chapter_i' = 1
    /\ valid_tests' = <<>>
    /\ test_i' = 1
    /\ x86_return_code' = Unset
    /\ potato_cpu_return_code' = Unset
    /\ error' = NoError
    /\ x86_calls' = <<>>
    /\ potato_calls' = <<>>
    /\ list_log' = <<>>
    /\ ext' = NoExt
    /\ UNCHANGED <<chapters_to_test, caller_built, cli, exit_code, in_flight, disk, built,
                   ls_order>>

NextRuns ==
    \/ Next
    \/ CallerBuild
    \/ NextRun

SpecRuns == InitRuns /\ [][NextRuns]_vars

(***************************************************************************)
(* What the claims speak of.                                               *)
(***************************************************************************)
NoExecution == x86_calls = <<>> /\ potato_calls = <<>>
\* a build invocation of this run has returned exit status 0
BuildSucceeded ==
    \E i \in 1..Len(build_log) :
        /\ build_log[i].invoked
        /\ ~build_log[i].raised
        /\ build_log[i].value = 0
\* the test paths of one listing of the run loop
PathsOf(listing) ==
    [i \in 1..Len(listing.tests) |->
        get_test_path(listing.tests[i], listing.chapter, Prefix_valid)]
\* the test paths of all listings the run loop obtained, in order
ListedPaths == Flatten([i \in 1..Len(list_log) |-> PathsOf(list_log[i])])
\* the names of a directory's entries that ls shows and that end in .c
DotCNames(dir) == {n \in Visible(dir) : IsDotC(n)}
FailedWith(type, where) ==
    pc = "failed" /\ error.type = type /\ error.where = where

C2_FailFast ==
    [][ /\ (pc = "compare" /\ x86_return_code # potato_cpu_return_code)
            => /\ FailedWith("ValueError", "validate_potato_cpu")'
               /\ UNCHANGED calls
        /\ pc = "failed"
            => UNCHANGED <<pc, error, calls>> ]_vars

\* the second of three tests diverged: one test is left unexecuted
C2_Witness ==
    /\ FailedWith("ValueError", "validate_potato_cpu")
    /\ Len(x86_calls) = 2
    /\ Len(potato_calls) = 2
    /\ test_i = 2
    /\ chapter_i < Len(chapters_to_test)
    /\ corpus[chapters_to_test[2]].exists
    /\ DotCNames(corpus[chapters_to_test[2]]) # {}

(***************************************************************************)
(* C3: in a run that ends with no error the run loop has listed every      *)
(* requested chapter once, in the caller's order, and both the native and  *)
(* the simulated adapter have been invoked exactly on the listed           *)
(* TestCases, once per listed TestCase and in listing order; while the     *)
(* disk is unchanged a listing holds each .c entry of the directory once.  *)
(***************************************************************************)
C3_OncePerListedTest ==
    pc = "done" =>
        /\ Len(list_log) = Len(chapters_to_test)
        /\ \A i \in 1..Len(list_log) :
               /\ list_log[i].chapter = chapters_to_test[i]
               /\ changes = 0 =>
                      /\ Range(list_log[i].tests) = DotCNames(corpus[chapters_to_test[i]])
                      /\ Len(list_log[i].tests) =
                             Cardinality(DotCNames(corpus[chapters_to_test[i]]))
        /\ x86_calls = ListedPaths
        /\ potato_calls = ListedPaths

C3_Witness ==
    /\ pc = "done"
    /\ Len(chapters_to_test) = 2
    /\ chapters_to_test[1] # chapters_to_test[2]
    /\ Len(x86_calls) = 3

(***************************************************************************)
(* C4: when the external build command exits non-zero, build raises the    *)
(* build-failure error and the run ends with it, neither adapter having    *)
(* been invoked for any TestCase.                                          *)
(***************************************************************************)
C4_BuildFailureStopsRun ==
    \A i \in 1..Len(build_log) :
        build_log[i].invoked /\ build_log[i].value # 0 =>
            /\ build_log[i].raised
            /\ FailedWith("RuntimeError", "build")
            /\ NoExecution

\* the build failed although the corpus holds tests to run
C4_Witness ==
    /\ FailedWith("RuntimeError", "build")
    /\ total_tests >= 2
    /\ NoExecution

(***************************************************************************)
(* C5: Builder idempotence.  Of two consecutive calls                      *)
(* build(force_rebuild=False) the first of which builds successfully, the  *)
(* first performs the one external build invocation and the second returns *)
(* 0 without invoking it; and build(force_rebuild=True) performs an        *)
(* external build invocation in every state of built.                      *)
(***************************************************************************)
SuccessfulBuild(call) == call.invoked /\ ~call.raised /\ call.value = 0
Invocations(i, j) == Cardinality({k \in i..j : build_log[k].invoked})

C5_BuilderIdempotence ==
    /\ \A i \in 1..(Len(build_log) - 1) :
           /\ ~build_log[i].force_rebuild
           /\ ~build_log[i + 1].force_rebuild
           /\ SuccessfulBuild(build_log[i])
           => /\ ~build_log[i + 1].invoked
              /\ ~build_log[i + 1].raised
              /\ build_log[i + 1].value = 0
              /\ Invocations(i, i + 1) = 1
    /\ \A i \in 1..Len(build_log) :
           build_log[i].force_rebuild => build_log[i].invoked

\* build(False) that builds, build(False), then build(True) with built true
C5_Witness ==
    /\ Len(build_log) >= 3
    /\ ~build_log[1].force_rebuild /\ SuccessfulBuild(build_log[1])
    /\ ~build_log[2].force_rebuild /\ ~build_log[2].invoked
    /\ build_log[3].force_rebuild /\ build_log[3].built_before
    /\ build_log[3].invoked

(***************************************************************************)
(* C6: no-divergence success.  While the corpus on disk is unchanged, a    *)
(* run that got past the build and in which every adapter call returned    *)
(* and every pair of results was equal ends with no error, and then the    *)
(* progress counter equals the precomputed total, which is the sum of the  *)
(* corpus sizes of the requested chapters.                                *)
(***************************************************************************)
Sum(f) ==
    LET RECURSIVE S(_)
        S(n) == IF n = 0 THEN 0 ELSE f[n] + S(n - 1)
    IN  S(Len(f))
\* the number of TestCases on disk over the requested chapters
CorpusTotal ==
    Sum([i \in 1..Len(chapters_to_test) |->
            Cardinality(DotCNames(corpus[chapters_to_test[i]]))])
\* the errors of a failed build, a failed adapter call and a divergence
Faults ==
    {"build", "execute_test_x86", "compile_from_source", "execute",
     "validate_potato_cpu"}

C6_NoDivergenceSuccess ==
    /\ pc = "done" /\ changes = 0 =>
           /\ error = NoError
           /\ pbar.created
           /\ pbar.total = total_tests
           /\ total_tests = CorpusTotal
           /\ pbar.n = pbar.total
    /\ pc = "failed" /\ changes = 0 /\ pbar.created => error.where \in Faults

C6_Witness ==
    /\ pc = "done"
    /\ changes = 0
    /\ Len(chapters_to_test) = 2
    /\ pbar.n = 3

(***************************************************************************)
(* C7 as stated: the error raised on a divergence carries the chapter and  *)
(* the file name of the TestCase and the two termination codes.            *)
(***************************************************************************)
Interpolated(message) == {message[i].var : i \in 1..Len(message)} \ {""}

C7_AsStated ==
    FailedWith("ValueError", "validate_potato_cpu") =>
        {"chapter", "test_file", "x86_return_code", "potato_cpu_return_code"}
            \subseteq Interpolated(error.message)

(***************************************************************************)
(* C8: while the disk is unchanged, if the valid directory of a requested  *)
(* chapter (at any position of the list) is missing, the run fails with    *)
(* the corpus-listing error before the progress bar is created, the build  *)
(* is invoked or any adapter is invoked; a listing error never comes from  *)
(* a directory that exists, and an empty one is listed as no tests.        *)
(***************************************************************************)
SomeDirMissing ==
    \E i \in 1..Len(chapters_to_test) : ~corpus[chapters_to_test[i]].exists

C8_MissingCorpusAbortsFirst ==
    /\ changes = 0 /\ SomeDirMissing =>
           /\ NoExecution
           /\ build_log = <<>>
           /\ ~pbar.created
           /\ pc \in {"start", "count", "failed"}
           /\ pc = "failed" => error =
                  [type |-> "RuntimeError", where |-> "list_valid_tests",
                   message |-> <<Lit("Failed to list tests.")>>]
    /\ changes = 0 /\ FailedWith("RuntimeError", "list_valid_tests")
           => SomeDirMissing
    /\ \A i \in 1..Len(list_log) :
           changes = 0 /\ corpus[list_log[i].chapter].entries = {}
               => list_log[i].tests = <<>>

\* the second chapter's directory is missing, the first holds two tests
C8_Witness ==
    /\ changes = 0
    /\ FailedWith("RuntimeError", "list_valid_tests")
    /\ Len(chapters_to_test) = 2
    /\ corpus[chapters_to_test[1]].exists
    /\ Cardinality(DotCNames(corpus[chapters_to_test[1]])) = 2
    /\ ~corpus[chapters_to_test[2]].exists
    /\ NoExecution

(***************************************************************************)
(* C9 as stated: for every directory content list_valid_tests returns      *)
(* exactly the entries that are source files: every returned name ends in  *)
(* .c, every regular file of the directory whose name ends in .c is        *)
(* returned exactly once, and every other entry (a directory, a README)    *)
(* is left out, whatever order ls enumerates in.                           *)
(***************************************************************************)
SourceFiles(dir) ==
    {e.name : e \in {x \in dir.entries : x.kind = "file" /\ IsDotC(x.name)}}

C9_AsStated ==
    pc = "listed" =>
        /\ \A i \in 1..Len(valid_tests) : IsDotC(valid_tests[i])
        /\ Range(valid_tests) = SourceFiles(corpus[chapter_i])
        /\ Len(valid_tests) = Cardinality(SourceFiles(corpus[chapter_i]))

(***************************************************************************)
(* C10 as stated: a failure of a progress-reporter operation does not      *)
(* abort the run.                                                          *)
(***************************************************************************)
C10_AsStated == ~FailedWith("TqdmError", "tqdm")

(***************************************************************************)
(* C11: BuildState lifecycle.  built is false on a new CompilerTester; it  *)
(* becomes true only in a call of build whose external build invocation    *)
(* returned 0, so built implies a successful build on this tester; and it  *)
(* goes from true to false only within a call build(force_rebuild=True).   *)
(***************************************************************************)
LastCall(log) == log[Len(log)]

C11_BuildStateLifecycle ==
    /\ [](build_log = <<>> => ~built)
    /\ [](built => BuildSucceeded)
    /\ [][ /\ ~built /\ built'
               => /\ Len(build_log') = Len(build_log) + 1
                  /\ SuccessfulBuild(LastCall(build_log'))
           /\ built /\ ~built'
               => /\ Len(build_log') = Len(build_log) + 1
                  /\ LastCall(build_log').force_rebuild
                  /\ LastCall(build_log').invoked ]_vars

\* a failed build, then a successful one
C11_Witness ==
    /\ built
    /\ Len(build_log) >= 2
    /\ build_log[1].raised
    /\ ~build_log[2].built_before
    /\ SuccessfulBuild(build_log[2])

(***************************************************************************)
(* C18: a build invocation that fails leaves built as it was.  After a     *)
(* failed build(force_rebuild=True) on a tester whose built is true, the   *)
(* next build(force_rebuild=False) returns 0 without invoking the          *)
(* external build.                                                         *)
(***************************************************************************)
BuiltAfter(i) ==
    IF i < Len(build_log) THEN build_log[i + 1].built_before ELSE built

C18_FailedBuildKeepsFlag ==
    /\ \A i \in 1..Len(build_log) :
           build_log[i].raised =>
               /\ build_log[i].invoked
               /\ BuiltAfter(i) = build_log[i].built_before
    /\ \A i \in 1..(Len(build_log) - 1) :
           /\ build_log[i].force_rebuild
           /\ build_log[i].built_before
           /\ build_log[i].raised
           /\ ~build_log[i + 1].force_rebuild
           => /\ ~build_log[i + 1].invoked
              /\ ~build_log[i + 1].raised
              /\ build_log[i + 1].value = 0

\* built, a forced rebuild that fails, then build(False) doing nothing
C18_Witness ==
    \E i \in 2..(Len(build_log) - 1) :
        /\ build_log[i].force_rebuild
        /\ build_log[i].built_before
        /\ build_log[i].raised
        /\ ~build_log[i + 1].force_rebuild
        /\ ~build_log[i + 1].invoked
        /\ built

(***************************************************************************)
(* C12: a non-zero termination code of the native toolchain is a result,   *)
(* not an error.  Once the toolchain process has been launched the native  *)
(* adapter returns its code, whatever it is, and raises nothing; the       *)
(* simulated adapter is then invoked on the same TestCase; and when the    *)
(* simulated result is the same non-zero code the run goes on to the next  *)
(* TestCase with no error.                                                 *)
(***************************************************************************)
C12_NonZeroIsValid ==
    [][ /\ pc = "x86_wait"
            => /\ pc' = "potato"
               /\ error' = NoError
               /\ x86_return_code' = ext'.run_result.returncode
        /\ (pc = "potato" /\ x86_return_code # 0)
            => /\ pc' = "potato_wait"
               /\ potato_calls' = Append(potato_calls, LastCall(x86_calls))
        /\ (pc = "compare" /\ x86_return_code # 0
                           /\ potato_cpu_return_code = x86_return_code)
            => /\ pc' = "test"
               /\ test_i' = test_i + 1
               /\ error' = NoError ]_vars

\* both backends gave 2 on the first test and the second test is next
C12_Witness ==
    /\ pc = "test"
    /\ pbar.n = 1
    /\ x86_return_code = 2
    /\ potato_cpu_return_code = 2
    /\ test_i = 2
    /\ test_i <= Len(valid_tests)

(***************************************************************************)
(* C13: an adapter failure is fatal and never retried.  When the native    *)
(* launch, the simulated compile or the simulated execute fails, the run   *)
(* fails with that error; the failing adapter was called once for the      *)
(* TestCase; after a native launch failure the simulated adapter was not   *)
(* invoked for the TestCase; and from then on no adapter is invoked and    *)
(* the error is not replaced.                                              *)
(***************************************************************************)
AdapterStages == {"execute_test_x86", "compile_from_source", "execute"}
AdapterFailure == pc = "failed" /\ error.where \in AdapterStages

C13_AdapterFailureFatal ==
    /\ [](AdapterFailure =>
            /\ Len(x86_calls) = pbar.n + 1
            /\ LastCall(x86_calls) = CurrentTestPath
            /\ IF error.where = "execute_test_x86"
               THEN Len(potato_calls) = pbar.n
               ELSE /\ Len(potato_calls) = pbar.n + 1
                    /\ LastCall(potato_calls) = CurrentTestPath)
    /\ [][ /\ (x86_calls' # x86_calls \/ potato_calls' # potato_calls)
               => error = NoError
           /\ (error' # error /\ error'.where \in AdapterStages)
               => /\ error = NoError
                  /\ pc' = "failed"
           /\ AdapterFailure => AdapterFailure' /\ error' = error ]_vars

\* the native launch failed on the second test, and a test was still to come
C13_Witness ==
    /\ pc = "failed"
    /\ error.where = "execute_test_x86"
    /\ Len(x86_calls) = 2
    /\ Len(potato_calls) = 1
    /\ \/ test_i < Len(valid_tests)
       \/ chapter_i < Len(chapters_to_test)

(***************************************************************************)
(* C15: the adapters pass the termination code through.  What the native   *)
(* adapter returns is the return code of the process started on the        *)
(* TestCase's path; what the simulated adapter returns is what execute     *)
(* yielded on the program compiled from the TestCase's path.  So a         *)
(* divergence is raised only when the two backends gave different codes:   *)
(* a TestCase that yields 2 on both gives 2 from each adapter and does     *)
(* not fail the run.                                                       *)
(***************************************************************************)
C15_PassThrough ==
    /\ pc \in {"potato", "potato_wait", "compare"}
        => /\ x86_return_code = ext.run_result.returncode
           /\ ext.run_result.args[2] = CurrentTestPath
    /\ pc = "compare"
        => /\ potato_cpu_return_code = ext.result
           /\ ext.potato_program.source = CurrentTestPath
    /\ (pc = "failed" /\ error.where = "validate_potato_cpu")
        => ext.run_result.returncode # ext.result

\* a corpus of one TestCase that yields 2 on both backends; the run succeeded
C15_Witness ==
    /\ pc = "done"
    /\ Len(x86_calls) = 1
    /\ Len(potato_calls) = 1
    /\ ext.run_result.returncode = 2
    /\ ext.result = 2
    /\ x86_return_code = 2
    /\ potato_cpu_return_code = 2
    /\ pbar.total = 1
    /\ pbar.n = 1

(***************************************************************************)
(* C17: execution is strictly sequential.  Chapters are listed in the      *)
(* caller's order; the simulated adapter is invoked for a TestCase only    *)
(* when the native invocation of that TestCase has ended; the native       *)
(* adapter is invoked for the next TestCase only when both results of the  *)
(* current one have been compared equal; and at no point are two adapter   *)
(* invocations in flight.                                                  *)
(***************************************************************************)
C17_StrictlySequential ==
    /\ [](/\ Cardinality(in_flight) <= 1
          /\ Len(potato_calls) <= Len(x86_calls)
          /\ Len(x86_calls) <= Len(potato_calls) + 1
          /\ Len(x86_calls) <= pbar.n + 1
          /\ Len(list_log) <= Len(chapters_to_test)
          /\ \A i \in 1..Len(list_log) :
                 list_log[i].chapter = chapters_to_test[i])
    /\ [][ /\ x86_calls' # x86_calls
               => /\ in_flight = {}
                  /\ Len(potato_calls) = Len(x86_calls)
                  /\ pbar.n = Len(x86_calls)
           /\ potato_calls' # potato_calls
               => /\ in_flight = {}
                  /\ pc = "potato"
                  /\ Len(x86_calls) = Len(potato_calls) + 1
                  /\ ext.run_result.args[2] = LastCall(x86_calls) ]_vars

\* the simulated invocation of a second chapter's TestCase is in flight
C17_Witness ==
    /\ in_flight = {"potato"}
    /\ Len(list_log) = 2
    /\ Len(x86_calls) >= 2
    /\ pbar.n = Len(x86_calls) - 1

(***************************************************************************)
(* C19: the progress counter.  While the corpus is not changed the counter *)
(* of the progress bar equals the number of TestCases on which both        *)
(* adapters returned and the results compared equal, a step changes it by  *)
(* one and only when such a comparison is made, it never exceeds the total *)
(* counted before the loop, and when the run aborts on a divergence or an  *)
(* adapter failure it equals the number of TestCases before the failing    *)
(* one.                                                                    *)
(***************************************************************************)
\* the TestCases on which both adapters returned and the results were equal:
\* the simulated invocations, less the one not yet compared or not equal
Agreed ==
    IF \/ pc \in {"potato_wait", "compare"}
       \/ /\ pc = "failed"
          /\ error.where \in {"compile_from_source", "execute", "validate_potato_cpu"}
    THEN Len(potato_calls) - 1
    ELSE Len(potato_calls)

AbortedInTest == pc = "failed" /\ error.where \in AdapterStages \cup {"validate_potato_cpu"}

C19_ProgressCounter ==
    /\ [](changes = 0 =>
            /\ pbar.n = Agreed
            /\ pbar.n <= pbar.total \/ ~pbar.created
            /\ AbortedInTest => pbar.n = Len(x86_calls) - 1)
    /\ [][ changes' = 0 =>
            /\ pbar'.n \in {pbar.n, pbar.n + 1}
            /\ pbar'.n = pbar.n + 1
                  <=> /\ pc = "compare"
                      /\ x86_return_code = potato_cpu_return_code
                      /\ pc' = "test" ]_vars

\* the second of two counted TestCases diverged: the counter stays at one
C19_Witness ==
    /\ changes = 0
    /\ pc = "failed"
    /\ error.where = "validate_potato_cpu"
    /\ pbar.n = 1
    /\ pbar.total >= 2
    /\ Len(potato_calls) = 2

(***************************************************************************)
(* C14: the command line.  With no -c argument the run tests chapter 1     *)
(* alone, with -c it tests the chapters given.  Without --no-build the     *)
(* build is invoked before any test is executed; with --no-build no build  *)
(* is invoked.  The process exits with status 0 exactly when the run       *)
(* raised nothing; a build failure or a divergence ends it with a          *)
(* non-zero status.                                                        *)
(***************************************************************************)
InRun == pc \notin {"main", "start"}
BuildStepPassed == InRun /\ pc \notin {"count", "build"} /\ (pc = "failed" => pbar.created)

RunInvocations == Cardinality({i \in 1..Len(build_log) : build_log[i].invoked})

C20_AsStated ==
    /\ pc \in {"count", "build"} => ~built
    /\ Terminal /\ build_before_test => RunInvocations = 1

(***************************************************************************)
(* C20 amended: every run works on a new tester whose built is false,      *)
(* whatever an earlier run or the caller's tester has built.  A run with   *)
(* build_before_test = True whose test counting succeeded performs exactly *)
(* one external build invocation, also after an earlier run of the process *)
(* built successfully; a run whose test counting fails performs none.  A   *)
(* run leaves the built flag of the caller's tester as it is.              *)
(***************************************************************************)
C20_FreshTesterPerRun ==
    /\ [](/\ pc \in {"count", "build"} => ~built
          /\ \A i \in 1..Len(build_log) :
                 /\ ~build_log[i].built_before
                 /\ build_log[i].invoked
          /\ RunInvocations <= 1
          /\ build_before_test /\ pc \notin {"start", "count", "build"}
                 => IF pc = "failed" /\ ~pbar.created
                    THEN RunInvocations = 0
                    ELSE RunInvocations = 1)
    /\ [][ caller_built' # caller_built => pc = "start" /\ pc' = "start" ]_vars

\* the caller's tester is built, the first run built successfully, and the
\* second run has invoked the build again
C20_Witness ==
    /\ runs = 2
    /\ caller_built
    /\ \E i \in 1..Len(earlier_builds[1]) : SuccessfulBuild(earlier_builds[1][i])
    /\ build_before_test
    /\ pc = "chapter"
    /\ RunInvocations = 1
    /\ built

(***************************************************************************)
(* The states of the run's state machine, read off the run's position.     *)
(* Building is the call of build, the step that adds to build_log; Built   *)
(* is the flag that step leaves set.                                       *)
(***************************************************************************)
NotBuilt == pc \in {"start", "count", "build"}
Running == pc \in {"chapter", "test", "x86", "x86_wait", "potato", "potato_wait", "compare"}
Succeeded == pc = "done" /\ error = NoError
DivergedAborted == FailedWith("ValueError", "validate_potato_cpu")
BuildFailed == FailedWith("RuntimeError", "build")
CorpusNotFound == FailedWith("RuntimeError", "list_valid_tests")
AdapterFailed == AdapterFailure

Outcomes ==
    {o \in {"Succeeded", "DivergedAborted", "BuildFailed", "CorpusNotFound", "AdapterFailed"} :
        \/ o = "Succeeded" /\ Succeeded
        \/ o = "DivergedAborted" /\ DivergedAborted
        \/ o = "BuildFailed" /\ BuildFailed
        \/ o = "CorpusNotFound" /\ CorpusNotFound
        \/ o = "AdapterFailed" /\ AdapterFailed}

====
